---- MODULE Spec2Model ----
(***************************************************************************)
(* Model of src/pair/strategy/non_discrete_.rs: the non-discrete alignment *)
(* strategy (threshold cost model, rolling-buffer fill, best-path anchor). *)
(*                                                                         *)
(* f64 values are modelled by integers: the sample values, weights,        *)
(* thresholds and finite bounds are small integers (on which f64           *)
(* arithmetic is exact), FMAX stands for f64::MAX and INFINITY for         *)
(* f64::INFINITY, with FMAX < INFINITY and both above every finite score   *)
(* the model can produce.  FAdd saturates the way f64 addition does.       *)
(***************************************************************************)
EXTENDS Integers, Sequences, FiniteSets, TLC

VARIABLES cfg, x, y, pc, alloc, result, matrix, by, bx, row, score, cursor,
          y_idx, x_idx, last_diagonal, computed

vars == <<cfg, x, y, pc, alloc, result, matrix, by, bx, row, score, cursor,
          y_idx, x_idx, last_diagonal, computed>>

-----------------------------------------------------------------------------
(* Bounds of the model *)

\* longest input sequence
MaxLen == 2

\* sample values are 0..MaxVal
MaxVal == 1

-----------------------------------------------------------------------------
(* f64 *)

\* std::f64::MAX: the largest finite value
FMAX == 1000000

\* std::f64::INFINITY
INFINITY == FMAX + 1

\* a + b in f64, for a, b that are small integers, FMAX or INFINITY
FAdd(a, b) ==
    IF a = INFINITY \/ b = INFINITY THEN INFINITY
    ELSE IF a = FMAX /\ b = FMAX THEN INFINITY
    ELSE IF a = FMAX \/ b = FMAX THEN FMAX
    ELSE a + b

\* f64::sqrt on a perfect square
Sqrt(s) == CHOOSE d \in 0..s : d * d = s

-----------------------------------------------------------------------------
(* Collaborators: StepMask, MatrixCell, Matrix *)

INSERT == "INSERT"
ALIGN == "ALIGN"
DELETE == "DELETE"

\* MatrixCell::new(score, mask)
MatrixCell(s, m) == [score |-> s, mask |-> m]

Min3(a, b, c) ==
    IF a <= b /\ a <= c THEN a ELSE IF b <= c THEN b ELSE c

\* MatrixCell::from_scores(align, delete, insert): the minimum of the three
\* scores, with every move that achieves it flagged in the mask
FromScores(align, delete, insert) ==
    LET m == Min3(align, delete, insert) IN
    MatrixCell(m, (IF align = m THEN {ALIGN} ELSE {})
                  \cup (IF delete = m THEN {DELETE} ELSE {})
                  \cup (IF insert = m THEN {INSERT} ELSE {}))

\* no matrix: M::new has not returned Ok
NoMatrix == << >>

\* M::new(width, height) returning Ok: every cell is the default cell
MatrixNew(width, height) ==
    [p \in (0..(width - 1)) \X (0..(height - 1)) |-> MatrixCell(0, {})]

\* the errors M::new can return
Errors == {"E1", "E2"}

-----------------------------------------------------------------------------
(* Strategy *)

\* Strategy::new
StrategyNew(equal, unequal, threshold, lo, hi) ==
    [equal |-> equal, unequal |-> unequal, threshold |-> threshold,
     lo |-> lo, hi |-> hi]

\* Strategy::dynamic_time_warping
dynamic_time_warping == StrategyNew(1, 1, 0, 0, FMAX)

\* the configurations explored: weights, thresholds and bounds lo <= hi
Configs ==
    {StrategyNew(w[1], w[2], t, b[1], b[2]) :
        w \in {<<1, 1>>, <<2, 2>>, <<1, 2>>}, t \in {0, 1},
        b \in {<<0, FMAX>>, <<-1, 1>>, <<1, 2>>}}

\* variant of total_score: the upper bound is not applied
total_score_noupper(c, s) ==
    IF s < c.lo THEN c.lo ELSE s

\* Strategy::total_score
total_score(c, s) ==
    IF s < c.lo THEN c.lo
    ELSE IF s > c.hi THEN c.hi
    ELSE s

\* variant of the local cost: the signed difference instead of the distance
local_cost_signed(c, lhs, rhs) ==
    LET cost == (lhs - rhs) - c.threshold IN
    IF cost >= 0 THEN c.equal * cost ELSE c.unequal * cost

\* the local cost of calculate_cell: distance, threshold, weight
local_cost(c, lhs, rhs) ==
    LET squared_distance == (lhs - rhs) * (lhs - rhs)
        distance == Sqrt(squared_distance)
        cost == distance - c.threshold
    IN IF cost >= 0 THEN c.equal * cost ELSE c.unequal * cost

\* Strategy::calculate_cell; previous = <<insert, align, delete>>
calculate_cell(c, lhs, rhs, previous) ==
    LET insert == previous[1]
        align == previous[2]
        delete == previous[3]
        cell == FromScores(align, delete, insert)
        s == FAdd(local_cost(c, lhs, rhs), cell.score)
    IN [cell EXCEPT !.score = total_score(c, s)]

-----------------------------------------------------------------------------
(* alignment_set: the pieces of the fill loop as operators on the locals *)

Width(xs) == Len(xs) + 1
Height(ys) == Len(ys) + 1

\* border seeding, one iteration of each loop
SeedInsert(m, j) == [m EXCEPT ![<<0, j>>] = MatrixCell(INFINITY, {INSERT})]
SeedDelete(m, i) == [m EXCEPT ![<<i, 0>>] = MatrixCell(INFINITY, {DELETE})]

\* the rolling buffer as first collected
InitRow(width) == [i \in 0..(width - 1) |-> INFINITY]

\* the diagonal seed at the start of row y_idx
DiagonalSeed(c, m, yi) ==
    total_score(c, IF yi = 0 THEN 0 ELSE m[<<0, yi>>].score)

\* variant of previous: insert read from row[x_idx] instead of row[x_idx + 1]
Previous_shifted(r, diag, xi) == <<r[xi], diag, r[xi]>>

\* previous = [row[x_idx + 1], last_diagonal, row[x_idx]]
Previous(r, diag, xi) == <<r[xi + 1], diag, r[xi]>>

\* variant of current_cursor: x is x_idx instead of x_idx + 1
CurrentCursor_offbyone(xi, yi) == <<xi, yi + 1>>

\* current_cursor
CurrentCursor(xi, yi) == <<xi + 1, yi + 1>>

\* variant of the anchor update: <= instead of <
UpdateAnchor_le(s, cur, current_score, current_cursor) ==
    IF current_score <= s THEN <<current_score, current_cursor>>
    ELSE <<s, cur>>

\* if current_score < score { score = current_score; cursor = current_cursor }
UpdateAnchor(s, cur, current_score, current_cursor) ==
    IF current_score < s THEN <<current_score, current_cursor>>
    ELSE <<s, cur>>

\* the body of the inner loop, on a record L of the locals
CellStep(c, xs, ys, L) ==
    LET previous == Previous(L.row, L.last_diagonal, L.x_idx)
        cell == calculate_cell(c, xs[L.x_idx + 1], ys[L.y_idx + 1], previous)
        current_cursor == CurrentCursor(L.x_idx, L.y_idx)
        current_score == cell.score
        anchor == UpdateAnchor(L.score, L.cursor, current_score, current_cursor)
        old_diagonal == L.row[L.x_idx + 1]
    IN [matrix |-> [L.matrix EXCEPT ![current_cursor] = cell],
        row |-> [L.row EXCEPT ![L.x_idx + 1] = current_score],
        score |-> anchor[1],
        cursor |-> anchor[2],
        y_idx |-> L.y_idx,
        x_idx |-> L.x_idx + 1,
        last_diagonal |-> old_diagonal]

\* the head of the outer loop body
RowStep(c, L) ==
    [L EXCEPT !.last_diagonal = DiagonalSeed(c, L.matrix, L.y_idx),
              !.x_idx = 0]

\* variant of the fill initialisation: score starts at 0 instead of MAX
FillInit_zero(m, width) ==
    [matrix |-> m, row |-> InitRow(width), score |-> 0, cursor |-> <<1, 1>>,
     y_idx |-> 0, x_idx |-> 0, last_diagonal |-> 0]

\* the locals after the borders are seeded and row, score, cursor are set
FillInit(m, width) ==
    [matrix |-> m, row |-> InitRow(width), score |-> FMAX, cursor |-> <<1, 1>>,
     y_idx |-> 0, x_idx |-> 0, last_diagonal |-> 0]

Locals ==
    [matrix |-> matrix, row |-> row, score |-> score, cursor |-> cursor,
     y_idx |-> y_idx, x_idx |-> x_idx, last_diagonal |-> last_diagonal]

-----------------------------------------------------------------------------
(* alignment_set run to completion, as a function of (cfg, x, y) *)

RECURSIVE SeedInsertFrom(_, _, _)
SeedInsertFrom(m, j, height) ==
    IF j < height THEN SeedInsertFrom(SeedInsert(m, j), j + 1, height) ELSE m

RECURSIVE SeedDeleteFrom(_, _, _)
SeedDeleteFrom(m, i, width) ==
    IF i < width THEN SeedDeleteFrom(SeedDelete(m, i), i + 1, width) ELSE m

RECURSIVE FillRow(_, _, _, _)
FillRow(c, xs, ys, L) ==
    IF L.x_idx < Len(xs) THEN FillRow(c, xs, ys, CellStep(c, xs, ys, L)) ELSE L

RECURSIVE FillRows(_, _, _, _)
FillRows(c, xs, ys, L) ==
    IF L.y_idx < Len(ys)
    THEN FillRows(c, xs, ys,
                  [FillRow(c, xs, ys, RowStep(c, L)) EXCEPT !.y_idx = @ + 1])
    ELSE L

\* the locals at the return of an alignment_set call whose M::new succeeds
AlignmentSetOk(c, xs, ys) ==
    LET m0 == MatrixNew(Width(xs), Height(ys))
        m1 == SeedInsertFrom(m0, 1, Height(ys))
        m2 == SeedDeleteFrom(m1, 1, Width(xs))
    IN FillRows(c, xs, ys, FillInit(m2, Width(xs)))

-----------------------------------------------------------------------------
(* The call as a state machine *)

RECURSIVE SeqsUpTo(_, _)
SeqsUpTo(S, n) ==
    IF n = 0 THEN {<< >>}
    ELSE LET shorter == SeqsUpTo(S, n - 1) IN
         shorter \cup {Append(s, v) : s \in shorter, v \in S}

Inputs == SeqsUpTo(0..MaxVal, MaxLen)

Init ==
    /\ cfg \in Configs
    /\ x \in Inputs
    /\ y \in Inputs
    /\ pc = "call"
    /\ alloc = <<"none">>
    /\ result = <<"none">>
    /\ matrix = NoMatrix
    /\ by = 1
    /\ bx = 1
    /\ row = << >>
    /\ score = 0
    /\ cursor = <<0, 0>>
    /\ y_idx = 0
    /\ x_idx = 0
    /\ last_diagonal = 0
    /\ computed = 0

\* variant of the error return: the error value is replaced, not propagated
MatrixNewErr_fixed(e) ==
    /\ pc = "call"
    /\ alloc' = <<"Err", e>>
    /\ result' = <<"Err", "E1">>
    /\ pc' = "err"
    /\ UNCHANGED <<cfg, x, y, matrix, by, bx, row, score, cursor, y_idx, x_idx,
                   last_diagonal, computed>>

\* M::new(width, height)? with M::new returning Err(e)
MatrixNewErr(e) ==
    /\ pc = "call"
    /\ alloc' = <<"Err", e>>
    /\ result' = <<"Err", e>>
    /\ pc' = "err"
    /\ UNCHANGED <<cfg, x, y, matrix, by, bx, row, score, cursor, y_idx, x_idx,
                   last_diagonal, computed>>

\* M::new(width, height)? with M::new returning Ok
MatrixNewOk ==
    /\ pc = "call"
    /\ alloc' = <<"Ok">>
    /\ matrix' = MatrixNew(Width(x), Height(y))
    /\ by' = 1
    /\ pc' = "seed"
    /\ UNCHANGED <<cfg, x, y, result, bx, row, score, cursor, y_idx, x_idx,
                   last_diagonal, computed>>

\* for y in 1..height: one iteration
SeedInsertBorder ==
    /\ pc = "seed"
    /\ by < Height(y)
    /\ matrix' = SeedInsert(matrix, by)
    /\ by' = by + 1
    /\ UNCHANGED <<cfg, x, y, pc, alloc, result, bx, row, score, cursor, y_idx,
                   x_idx, last_diagonal, computed>>

\* for x in 1..width: one iteration
SeedDeleteBorder ==
    /\ pc = "seed"
    /\ by = Height(y)
    /\ bx < Width(x)
    /\ matrix' = SeedDelete(matrix, bx)
    /\ bx' = bx + 1
    /\ UNCHANGED <<cfg, x, y, pc, alloc, result, by, row, score, cursor, y_idx,
                   x_idx, last_diagonal, computed>>

\* let mut row ...; let mut score = MAX; let mut cursor = Cursor::new(1, 1)
InitFill ==
    /\ pc = "seed"
    /\ by = Height(y)
    /\ bx = Width(x)
    /\ LET L == FillInit(matrix, Width(x)) IN
        /\ row' = L.row
        /\ score' = L.score
        /\ cursor' = L.cursor
        /\ y_idx' = L.y_idx
        /\ x_idx' = L.x_idx
        /\ last_diagonal' = L.last_diagonal
    /\ pc' = "row"
    /\ UNCHANGED <<cfg, x, y, alloc, result, matrix, by, bx, computed>>

\* the outer loop takes the next y element and seeds last_diagonal
RowStart ==
    /\ pc = "row"
    /\ y_idx < Len(y)
    /\ LET L == RowStep(cfg, Locals) IN
        /\ last_diagonal' = L.last_diagonal
        /\ x_idx' = L.x_idx
    /\ pc' = "cell"
    /\ UNCHANGED <<cfg, x, y, alloc, result, matrix, by, bx, row, score, cursor,
                   y_idx, computed>>

\* one iteration of the inner loop
FillCell ==
    /\ pc = "cell"
    /\ x_idx < Len(x)
    /\ LET L == CellStep(cfg, x, y, Locals) IN
        /\ matrix' = L.matrix
        /\ row' = L.row
        /\ score' = L.score
        /\ cursor' = L.cursor
        /\ x_idx' = L.x_idx
        /\ last_diagonal' = L.last_diagonal
    /\ computed' = computed + 1
    /\ UNCHANGED <<cfg, x, y, pc, alloc, result, by, bx, y_idx>>

\* the inner loop is exhausted
RowEnd ==
    /\ pc = "cell"
    /\ x_idx = Len(x)
    /\ y_idx' = y_idx + 1
    /\ pc' = "row"
    /\ UNCHANGED <<cfg, x, y, alloc, result, matrix, by, bx, row, score, cursor,
                   x_idx, last_diagonal, computed>>

\* Ok(AlignmentSet::new(matrix, score, cursor))
Return ==
    /\ pc = "row"
    /\ y_idx = Len(y)
    /\ result' = <<"Ok", matrix, score, cursor>>
    /\ pc' = "done"
    /\ UNCHANGED <<cfg, x, y, alloc, matrix, by, bx, row, score, cursor, y_idx,
                   x_idx, last_diagonal, computed>>

Next ==
    \/ \E e \in Errors : MatrixNewErr(e)
    \/ MatrixNewOk
    \/ SeedInsertBorder
    \/ SeedDeleteBorder
    \/ InitFill
    \/ RowStart
    \/ FillCell
    \/ RowEnd
    \/ Return

Spec == Init /\ [][Next]_vars

-----------------------------------------------------------------------------
(* Vocabulary of the properties *)

\* the interior positions of the grid of the current call
Interior == (1..Len(x)) \X (1..Len(y))

\* the interior positions the fill has written so far (row-major order)
Written ==
    IF pc \in {"row", "cell", "done"}
    THEN {p \in Interior :
            \/ p[2] - 1 < y_idx
            \/ (pc = "cell" /\ p[2] - 1 = y_idx /\ p[1] - 1 < x_idx)}
    ELSE {}

\* p is visited before q by the fill (outer loop over y, inner over x)
Before(p, q) == p[2] < q[2] \/ (p[2] = q[2] /\ p[1] < q[1])

BordersSeeded == pc \in {"row", "cell", "done"}

\* the score stored in the grid at p, clamped into score_bounds
Clamped(p) == total_score(cfg, matrix[p].score)

\* what the call returned: the grid, the best score and the best position
Returned == pc = "done"
Grid == result[2]
BestScore == result[3]
BestPosition == result[4]

Abs(a) == IF a < 0 THEN -a ELSE a

\* the local cost as the specification words it
StatedCost(a, b) ==
    LET d == Abs(a - b) - cfg.threshold IN
    IF d >= 0 THEN cfg.equal * d ELSE cfg.unequal * d

\* the three predecessors of an interior position, clamped grid scores
InsertPred(p) == Clamped(<<p[1], p[2] - 1>>)
AlignPred(p) == Clamped(<<p[1] - 1, p[2] - 1>>)
DeletePred(p) == Clamped(<<p[1] - 1, p[2]>>)
MinPred(p) == Min3(InsertPred(p), AlignPred(p), DeletePred(p))

SetMin(S) == CHOOSE m \in S : \A n \in S : m <= n

-----------------------------------------------------------------------------
(* C1 *)

-----------------------------------------------------------------------------
(* C2 *)

\* C2 as stated: with x empty and y of length n >= 1 the grid is 1 x (n+1),
\* the returned best position is (0, 0) and the returned best score is 0
\* when hi >= 0, else the sentinel clamped to hi.
C2_EmptyXAnchorsAtOrigin ==
    (Returned /\ x = << >> /\ Len(y) >= 1)
        => /\ DOMAIN Grid = {0} \X (0..Len(y))
           /\ BestPosition = <<0, 0>>
           /\ BestScore = (IF cfg.hi >= 0 THEN 0 ELSE total_score(cfg, INFINITY))

-----------------------------------------------------------------------------
(* C3 *)

\* C3: for non-empty x and y, throughout the fill the anchor holds the
\* minimum score over the interior cells written so far, at the first of
\* them in row-major order that has it (an equal later score never replaces
\* the anchor, a strictly smaller one does), and the call returns that anchor
\* for the whole interior.
C3_AnchorIsFirstMinimum ==
    /\ Written # {}
        => /\ score = SetMin({matrix[p].score : p \in Written})
           /\ cursor \in Written
           /\ matrix[cursor].score = score
           /\ \A q \in Written :
                matrix[q].score = score => (q = cursor \/ Before(cursor, q))
    /\ (Returned /\ Interior # {})
        => /\ Written = Interior
           /\ Grid = matrix
           /\ BestScore = score
           /\ BestPosition = cursor

C3_Witness ==
    /\ Returned
    /\ BestPosition # <<1, 1>>
    /\ \E q \in Interior :
        /\ Before(BestPosition, q)
        /\ Grid[q].score = BestScore

-----------------------------------------------------------------------------
(* C4 *)

\* C4: with lo <= hi, every interior cell written so far has
\* lo <= score <= hi, at every point of the fill and in the returned grid.
C4_ClampInvariant ==
    cfg.lo <= cfg.hi
        => /\ \A p \in Written :
                cfg.lo <= matrix[p].score /\ matrix[p].score <= cfg.hi
           /\ Returned
                => \A p \in Interior :
                     cfg.lo <= Grid[p].score /\ Grid[p].score <= cfg.hi

C4_Witness ==
    /\ Returned
    /\ cfg.lo < cfg.hi
    /\ \E p \in Interior : Grid[p].score = cfg.hi
    /\ \E p \in Interior : Grid[p].score = cfg.lo

-----------------------------------------------------------------------------
(* C5 *)

\* C5: once the borders are seeded, in every later state of the fill and in
\* the returned grid each (0, j), j >= 1, holds the sentinel with mask
\* INSERT, each (i, 0), i >= 1, holds the sentinel with mask DELETE, and the
\* origin still holds the default cell: the fill writes none of them.
C5_BorderInvariant ==
    BordersSeeded
        => /\ \A j \in 1..Len(y) :
                matrix[<<0, j>>] = MatrixCell(INFINITY, {INSERT})
           /\ \A i \in 1..Len(x) :
                matrix[<<i, 0>>] = MatrixCell(INFINITY, {DELETE})
           /\ matrix[<<0, 0>>] = MatrixCell(0, {})
           /\ Returned => Grid = matrix

C5_Witness ==
    /\ Returned
    /\ Len(x) >= 2
    /\ Len(y) >= 2
    /\ computed = Len(x) * Len(y)
    /\ Grid[<<0, 2>>].mask = {INSERT}
    /\ Grid[<<2, 0>>].mask = {DELETE}

-----------------------------------------------------------------------------
(* C6 *)

\* C6: with equal_weight = unequal_weight and threshold = 0, the best score
\* returned for (x, y) equals the best score of aligning y against x.
C6_Symmetry ==
    (Returned /\ cfg.equal = cfg.unequal /\ cfg.threshold = 0)
        => BestScore = AlignmentSetOk(cfg, y, x).score

C6_Witness ==
    /\ Returned
    /\ cfg.equal = cfg.unequal
    /\ cfg.threshold = 0
    /\ Len(x) = 2
    /\ Len(y) = 1
    /\ x[1] # x[2]
    /\ BestScore > cfg.lo
    /\ BestScore < cfg.hi

-----------------------------------------------------------------------------
(* C7 *)

\* C7: every interior cell the rolling-buffer fill has written holds
\* clamp(min of the three clamped grid predecessors + local cost).
C7_RollingBufferIsRecurrence ==
    \A p \in Written :
        matrix[p].score =
            total_score(cfg, FAdd(MinPred(p), StatedCost(x[p[1]], y[p[2]])))

C7_Witness ==
    /\ Returned
    /\ Len(x) >= 2
    /\ Len(y) >= 2
    /\ AlignPred(<<2, 2>>) < InsertPred(<<2, 2>>)
    /\ AlignPred(<<2, 2>>) < DeletePred(<<2, 2>>)
    /\ Grid[<<2, 2>>].score # Grid[<<1, 1>>].score

-----------------------------------------------------------------------------
(* C8 *)

\* C8: the call returns Err(e) exactly when M::new returned Err(e), with e
\* unchanged and with no border seeded, no cell written and no result bundle;
\* otherwise the call returns Ok after exactly len(x) * len(y) cell
\* computations.
C8_ErrorIffAllocationFails ==
    /\ pc = "err" <=> alloc[1] = "Err"
    /\ result[1] = "Err" <=> alloc[1] = "Err"
    /\ alloc[1] = "Err"
        => /\ result = alloc
           /\ matrix = NoMatrix
           /\ by = 1 /\ bx = 1
           /\ computed = 0
    /\ Returned
        => /\ alloc = <<"Ok">>
           /\ result[1] = "Ok"
           /\ computed = Len(x) * Len(y)

C8_Witness ==
    /\ pc = "err"
    /\ alloc = <<"Err", "E2">>
    /\ result = <<"Err", "E2">>

-----------------------------------------------------------------------------
(* C9 *)

\* C9 as stated: the mask of every interior cell holds exactly the moves
\* whose predecessor score, the grid score clamped into score_bounds
\* (sentinels included), equals the minimum of the three.
C9_MaskRecordsAllClampedTies ==
    \A p \in Written :
        matrix[p].mask =
            (IF InsertPred(p) = MinPred(p) THEN {INSERT} ELSE {})
            \cup (IF AlignPred(p) = MinPred(p) THEN {ALIGN} ELSE {})
            \cup (IF DeletePred(p) = MinPred(p) THEN {DELETE} ELSE {})

-----------------------------------------------------------------------------
(* C10 *)

\* C10 as stated: whenever the call returns Ok, the best position addresses
\* a cell of the returned grid and the best score is the score stored there.
C10_AnchorAddressesGrid ==
    Returned
        => /\ BestPosition \in DOMAIN Grid
           /\ BestScore = Grid[BestPosition].score

====
